---- MODULE Spec2Model ----
(***************************************************************************)
(* picolog: the subscriber table, the shared message buffer and the        *)
(* dispatch path of src/src/picolog.c, as a state machine.                 *)
(*                                                                         *)
(* A function pointer is a natural number: 0 is NULL, 1 is picolog_format  *)
(* and 2.. are client sinks.  A character is a one-character string and    *)
(* NUL is the terminator byte.  Subscriber callbacks return and do not     *)
(* call back into picolog; what a callback observes is recorded in         *)
(* `invoked`.                                                              *)
(***************************************************************************)
EXTENDS Integers, Sequences, FiniteSets, TLC

\* ---------------------------------------------------------------------------
\* Build-time configuration (picolog.h:129-135, both overridable with -D).
\* The model is checked for a small table and a small buffer.
PICOLOG_MAX_SUBSCRIBERS == 3
PICOLOG_MAX_MESSAGE_LENGTH == 4

\* how many picolog_message calls a recorded run makes
MaxEmits == 2

\* picolog_level_t
PICOLOG_TRACE_LEVEL == 100
PICOLOG_DEBUG_LEVEL == 101
PICOLOG_INFO_LEVEL == 102
PICOLOG_WARNING_LEVEL == 103
PICOLOG_ERROR_LEVEL == 104
PICOLOG_CRITICAL_LEVEL == 105
PICOLOG_ALWAYS_LEVEL == 106

Levels == PICOLOG_TRACE_LEVEL .. PICOLOG_ALWAYS_LEVEL

\* picolog_err_t
PICOLOG_ERR_NONE == 0
PICOLOG_ERR_SUBSCRIBERS_EXCEEDED == 1
PICOLOG_ERR_NOT_SUBSCRIBED == 2

\* function pointers
NULL == 0
picolog_format == 1

\* the bytes of a zeroed subscriber_t / char
ZeroLevel == 0
NUL == "NUL"

Slots == 0 .. (PICOLOG_MAX_SUBSCRIBERS - 1)
Bytes == 0 .. (PICOLOG_MAX_MESSAGE_LENGTH - 1)

\* client sinks: as many as the table has slots, so that together with
\* picolog_format there is one callback more than fits
Clients == 2 .. (PICOLOG_MAX_SUBSCRIBERS + 1)
Callbacks == {picolog_format} \cup Clients
FnPointers == {NULL} \cup Callbacks

\* ---------------------------------------------------------------------------
\* The subscriber table

subscriber_t(fn, threshold) == [fn |-> fn, threshold |-> threshold]

\* memset(s_subscribers, 0, sizeof(s_subscribers))
ZeroTable == [i \in Slots |-> subscriber_t(NULL, ZeroLevel)]

\* s_subscribers[i].fn == fn
Matches(slot, fn) == slot.fn = fn

\* s_subscribers[i].fn == NULL
IsFree(slot) == slot.fn = NULL

\* (mutant) the threshold of an already subscribed callback is not stored
UpdateThresholdDropped(tab, i, threshold) == tab

\* s_subscribers[i].threshold = threshold
UpdateThreshold(tab, i, threshold) == [tab EXCEPT ![i].threshold = threshold]

\* s_subscribers[available_slot].fn = fn; ....threshold = threshold
Install(tab, available_slot, fn, threshold) ==
  [tab EXCEPT ![available_slot] = subscriber_t(fn, threshold)]

\* (mutant) the first free slot is taken at once, before the rest of the
\* table has been searched for fn
RECURSIVE SubscribeScanEager(_, _, _, _, _)
SubscribeScanEager(tab, fn, threshold, i, available_slot) ==
  IF i < PICOLOG_MAX_SUBSCRIBERS
  THEN IF Matches(tab[i], fn)
       THEN [tab |-> UpdateThreshold(tab, i, threshold), ret |-> PICOLOG_ERR_NONE,
             examined |-> i + 1]
       ELSE IF IsFree(tab[i])
            THEN [tab |-> Install(tab, i, fn, threshold), ret |-> PICOLOG_ERR_NONE,
                  examined |-> i + 1]
            ELSE SubscribeScanEager(tab, fn, threshold, i + 1, available_slot)
  ELSE [tab |-> tab, ret |-> PICOLOG_ERR_SUBSCRIBERS_EXCEEDED, examined |-> i]

\* (mutant) the loop remembers the first free slot it sees, not the last
RECURSIVE SubscribeScanFirstFree(_, _, _, _, _)
SubscribeScanFirstFree(tab, fn, threshold, i, available_slot) ==
  IF i < PICOLOG_MAX_SUBSCRIBERS
  THEN IF Matches(tab[i], fn)
       THEN [tab |-> UpdateThreshold(tab, i, threshold), ret |-> PICOLOG_ERR_NONE,
             examined |-> i + 1]
       ELSE IF IsFree(tab[i]) /\ available_slot = -1
            THEN SubscribeScanFirstFree(tab, fn, threshold, i + 1, i)
            ELSE SubscribeScanFirstFree(tab, fn, threshold, i + 1, available_slot)
  ELSE IF available_slot = -1
       THEN [tab |-> tab, ret |-> PICOLOG_ERR_SUBSCRIBERS_EXCEEDED, examined |-> i]
       ELSE [tab |-> Install(tab, available_slot, fn, threshold),
             ret |-> PICOLOG_ERR_NONE, examined |-> i]

\* the for loop of picolog_subscribe from index i on, and what follows it;
\* examined counts the slots the loop has looked at
RECURSIVE SubscribeScan(_, _, _, _, _)
SubscribeScan(tab, fn, threshold, i, available_slot) ==
  IF i < PICOLOG_MAX_SUBSCRIBERS
  THEN IF Matches(tab[i], fn)
       THEN [tab |-> UpdateThreshold(tab, i, threshold), ret |-> PICOLOG_ERR_NONE,
             examined |-> i + 1]
       ELSE IF IsFree(tab[i])
            THEN SubscribeScan(tab, fn, threshold, i + 1, i)
            ELSE SubscribeScan(tab, fn, threshold, i + 1, available_slot)
  ELSE IF available_slot = -1
       THEN [tab |-> tab, ret |-> PICOLOG_ERR_SUBSCRIBERS_EXCEEDED, examined |-> i]
       ELSE [tab |-> Install(tab, available_slot, fn, threshold),
             ret |-> PICOLOG_ERR_NONE, examined |-> i]

\* (mutant) available_slot starts at 0 instead of -1
picolog_subscribe_from_slot0(tab, fn, threshold) ==
  SubscribeScan(tab, fn, threshold, 0, 0)

picolog_subscribe(tab, fn, threshold) == SubscribeScan(tab, fn, threshold, 0, -1)

\* (mutant) the slot is marked empty by zeroing its threshold, not its fn
RECURSIVE UnsubscribeScanWrongField(_, _, _)
UnsubscribeScanWrongField(tab, fn, i) ==
  IF i < PICOLOG_MAX_SUBSCRIBERS
  THEN IF Matches(tab[i], fn)
       THEN [tab |-> [tab EXCEPT ![i].threshold = ZeroLevel], ret |-> PICOLOG_ERR_NONE,
             examined |-> i + 1]
       ELSE UnsubscribeScanWrongField(tab, fn, i + 1)
  ELSE [tab |-> tab, ret |-> PICOLOG_ERR_NOT_SUBSCRIBED, examined |-> i]

\* the for loop of picolog_unsubscribe from index i on; examined counts the
\* slots the loop has looked at
RECURSIVE UnsubscribeScan(_, _, _)
UnsubscribeScan(tab, fn, i) ==
  IF i < PICOLOG_MAX_SUBSCRIBERS
  THEN IF Matches(tab[i], fn)
       THEN [tab |-> [tab EXCEPT ![i].fn = NULL], ret |-> PICOLOG_ERR_NONE,
             examined |-> i + 1]
       ELSE UnsubscribeScan(tab, fn, i + 1)
  ELSE [tab |-> tab, ret |-> PICOLOG_ERR_NOT_SUBSCRIBED, examined |-> i]

picolog_unsubscribe(tab, fn) == UnsubscribeScan(tab, fn, 0)

\* (mutant) the memset is missing
picolog_init_no_memset(tab, threshold) == picolog_subscribe(tab, picolog_format, threshold)

\* picolog_init: clear the table, then subscribe the console formatter
picolog_init(tab, threshold) == picolog_subscribe(ZeroTable, picolog_format, threshold)

\* ---------------------------------------------------------------------------
\* Formatting into the shared buffer

Min(a, b) == IF a < b THEN a ELSE b

DigitChars == <<"0", "1", "2", "3", "4", "5", "6", "7", "8", "9">>

\* the conversion %d of a natural number
RECURSIVE Decimal(_)
Decimal(n) == IF n < 10 THEN <<DigitChars[n + 1]>>
              ELSE Decimal(n \div 10) \o <<DigitChars[(n % 10) + 1]>>

\* the text a format and its arguments expand to: "%s" inserts a string
\* argument, "%d" a number in decimal, any other character itself
RECURSIVE Format(_, _)
Format(fmt, args) ==
  IF fmt = <<>> THEN <<>>
  ELSE IF Head(fmt) = "%s" THEN Head(args) \o Format(Tail(fmt), Tail(args))
  ELSE IF Head(fmt) = "%d" THEN Decimal(Head(args)) \o Format(Tail(fmt), Tail(args))
  ELSE <<Head(fmt)>> \o Format(Tail(fmt), args)

\* vsnprintf(buf, size, ...): the indices of buf it stores to, for a
\* formatted text of length len (size > 0): the characters that fit in
\* size - 1 bytes, then the terminator
StoredIndices(size, len) == 0 .. Min(len, size - 1)

\* (mutant) vsprintf: the size is not honoured
vsprintf(buf, size, text) ==
  [i \in DOMAIN buf |->
     IF i < Len(text) THEN text[i + 1]
     ELSE IF i = Len(text) THEN NUL
     ELSE buf[i]]

\* vsnprintf(buf, size, ...): the buffer afterwards; bytes after the
\* terminator keep what they held
vsnprintf(buf, size, text) ==
  [i \in DOMAIN buf |->
     IF i < Min(Len(text), size - 1) THEN text[i + 1]
     ELSE IF i = Min(Len(text), size - 1) THEN NUL
     ELSE buf[i]]

\* the C string a callback reads at msg: the characters before the first NUL
RECURSIVE CStringFrom(_, _)
CStringFrom(buf, i) ==
  IF i \notin DOMAIN buf \/ buf[i] = NUL THEN <<>>
  ELSE <<buf[i]>> \o CStringFrom(buf, i + 1)

CString(buf) == CStringFrom(buf, 0)

\* ---------------------------------------------------------------------------
\* Dispatch

\* (mutant) severity > threshold
AdmitsAbove(severity, threshold) == severity > threshold

\* severity >= s_subscribers[i].threshold
Admits(severity, threshold) == severity >= threshold

\* (mutant) the callback is handed its own threshold as the severity
InvocationWithThreshold(slot, severity, buf) ==
  [fn |-> slot.fn, severity |-> slot.threshold, msg |-> CString(buf)]

\* s_subscribers[i].fn(severity, s_message): what the callback is handed
Invocation(slot, severity, buf) ==
  [fn |-> slot.fn, severity |-> severity, msg |-> CString(buf)]

\* (mutant) the test for a free slot is missing
RECURSIVE DispatchEverySlot(_, _, _, _)
DispatchEverySlot(tab, severity, buf, i) ==
  IF i < PICOLOG_MAX_SUBSCRIBERS
  THEN IF Admits(severity, tab[i].threshold)
       THEN <<Invocation(tab[i], severity, buf)>>
              \o DispatchEverySlot(tab, severity, buf, i + 1)
       ELSE DispatchEverySlot(tab, severity, buf, i + 1)
  ELSE <<>>

\* (mutant) the loop starts at slot 1
RECURSIVE DispatchSkipsSlotZero(_, _, _, _)
DispatchSkipsSlotZero(tab, severity, buf, i) ==
  IF i < PICOLOG_MAX_SUBSCRIBERS
  THEN IF i > 0 /\ tab[i].fn # NULL /\ Admits(severity, tab[i].threshold)
       THEN <<Invocation(tab[i], severity, buf)>>
              \o DispatchSkipsSlotZero(tab, severity, buf, i + 1)
       ELSE DispatchSkipsSlotZero(tab, severity, buf, i + 1)
  ELSE <<>>

\* (mutant) the loop runs from the last slot down
RECURSIVE DispatchDescending(_, _, _, _)
DispatchDescending(tab, severity, buf, i) ==
  IF i < PICOLOG_MAX_SUBSCRIBERS
  THEN IF tab[i].fn # NULL /\ Admits(severity, tab[i].threshold)
       THEN DispatchDescending(tab, severity, buf, i + 1)
              \o <<Invocation(tab[i], severity, buf)>>
       ELSE DispatchDescending(tab, severity, buf, i + 1)
  ELSE <<>>

\* (mutant) the callback is called once in the test and once in the body
RECURSIVE DispatchTwice(_, _, _, _)
DispatchTwice(tab, severity, buf, i) ==
  IF i < PICOLOG_MAX_SUBSCRIBERS
  THEN IF tab[i].fn # NULL /\ Admits(severity, tab[i].threshold)
       THEN <<Invocation(tab[i], severity, buf), Invocation(tab[i], severity, buf)>>
              \o DispatchTwice(tab, severity, buf, i + 1)
       ELSE DispatchTwice(tab, severity, buf, i + 1)
  ELSE <<>>

\* the delivery loop of picolog_message from index i on: the callback
\* invocations it makes, in order
RECURSIVE Dispatch(_, _, _, _)
Dispatch(tab, severity, buf, i) ==
  IF i < PICOLOG_MAX_SUBSCRIBERS
  THEN IF tab[i].fn # NULL /\ Admits(severity, tab[i].threshold)
       THEN <<Invocation(tab[i], severity, buf)>> \o Dispatch(tab, severity, buf, i + 1)
       ELSE Dispatch(tab, severity, buf, i + 1)
  ELSE <<>>

\* what a callback that logs passes to picolog_message when it is invoked
ReentrantNote ==
  [severity |-> PICOLOG_ERROR_LEVEL, fmt |-> <<"%s">>, args |-> <<<<"r", "e">>>>]

\* (mutant) every call of picolog_message formats into a buffer of its own
RECURSIVE DispatchNestedOwnBuffer(_, _, _, _, _, _)
DispatchNestedOwnBuffer(tab, severity, buf, i, reentrant, depth) ==
  IF i < PICOLOG_MAX_SUBSCRIBERS
  THEN IF tab[i].fn # NULL /\ Admits(severity, tab[i].threshold)
       THEN LET inner ==
                  IF tab[i].fn = reentrant /\ depth = 0
                  THEN DispatchNestedOwnBuffer(tab, ReentrantNote.severity,
                         vsnprintf(buf, PICOLOG_MAX_MESSAGE_LENGTH,
                                   Format(ReentrantNote.fmt, ReentrantNote.args)),
                         0, reentrant, depth + 1)
                  ELSE [made |-> <<>>, buf |-> buf]
                rest == DispatchNestedOwnBuffer(tab, severity, buf, i + 1,
                                                reentrant, depth)
            IN [made |-> <<Invocation(tab[i], severity, buf)>> \o inner.made \o rest.made,
                buf |-> rest.buf]
       ELSE DispatchNestedOwnBuffer(tab, severity, buf, i + 1, reentrant, depth)
  ELSE [made |-> <<>>, buf |-> buf]

\* the delivery loop of picolog_message from index i on, when the callback
\* `reentrant` itself calls picolog_message with ReentrantNote before it
\* returns (only when invoked from the outermost call, depth 0): the inner
\* call formats into the one s_message and runs its own delivery loop, and
\* the outer loop goes on with its own i and severity and with s_message as
\* the inner call left it.  made: the invocations in the order they happen;
\* buf: s_message at the end.
RECURSIVE DispatchNested(_, _, _, _, _, _)
DispatchNested(tab, severity, buf, i, reentrant, depth) ==
  IF i < PICOLOG_MAX_SUBSCRIBERS
  THEN IF tab[i].fn # NULL /\ Admits(severity, tab[i].threshold)
       THEN LET inner ==
                  IF tab[i].fn = reentrant /\ depth = 0
                  THEN DispatchNested(tab, ReentrantNote.severity,
                         vsnprintf(buf, PICOLOG_MAX_MESSAGE_LENGTH,
                                   Format(ReentrantNote.fmt, ReentrantNote.args)),
                         0, reentrant, depth + 1)
                  ELSE [made |-> <<>>, buf |-> buf]
                rest == DispatchNested(tab, severity, inner.buf, i + 1,
                                       reentrant, depth)
            IN [made |-> <<Invocation(tab[i], severity, buf)>> \o inner.made \o rest.made,
                buf |-> rest.buf]
       ELSE DispatchNested(tab, severity, buf, i + 1, reentrant, depth)
  ELSE [made |-> <<>>, buf |-> buf]

\* (mutant) the CRITICAL case was copied from the ERROR case and kept its name
picolog_level_name_copied_case(severity) ==
  CASE severity = PICOLOG_TRACE_LEVEL -> "TRACE"
    [] severity = PICOLOG_DEBUG_LEVEL -> "DEBUG"
    [] severity = PICOLOG_INFO_LEVEL -> "INFO"
    [] severity = PICOLOG_WARNING_LEVEL -> "WARNING"
    [] severity = PICOLOG_ERROR_LEVEL -> "ERROR"
    [] severity = PICOLOG_CRITICAL_LEVEL -> "ERROR"
    [] severity = PICOLOG_ALWAYS_LEVEL -> "ALWAYS"
    [] OTHER -> "UNKNOWN"

\* the switch of picolog_level_name
picolog_level_name(severity) ==
  CASE severity = PICOLOG_TRACE_LEVEL -> "TRACE"
    [] severity = PICOLOG_DEBUG_LEVEL -> "DEBUG"
    [] severity = PICOLOG_INFO_LEVEL -> "INFO"
    [] severity = PICOLOG_WARNING_LEVEL -> "WARNING"
    [] severity = PICOLOG_ERROR_LEVEL -> "ERROR"
    [] severity = PICOLOG_CRITICAL_LEVEL -> "CRITICAL"
    [] severity = PICOLOG_ALWAYS_LEVEL -> "ALWAYS"
    [] OTHER -> "UNKNOWN"

\* the slots the delivery loop looks at from index i on: it has no early exit
RECURSIVE DispatchExamined(_)
DispatchExamined(i) ==
  IF i < PICOLOG_MAX_SUBSCRIBERS THEN 1 + DispatchExamined(i + 1) ELSE 0

\* ---------------------------------------------------------------------------
\* State

VARIABLES
  s_subscribers,  \* the subscriber table
  s_message,      \* the shared message buffer
  call,           \* the last call made: operation, arguments, return value
  invoked,        \* the callback invocations the last call made, in order
  formatted,      \* the full text the last picolog_message formatted
  stored,         \* the buffer indices the last picolog_message stored to
  dropped,        \* callbacks live before a picolog_init and not subscribed since
  recording,      \* what a run keeps a record of: "off", "deliveries" or "installs"
  emitted,        \* recorded: severity and formatted text of each picolog_message
  deliveries,     \* recorded: every callback invocation, with the number of its call
  installed       \* recorded: the callbacks subscribed since picolog_init, in order

vars == <<s_subscribers, s_message, call, invoked, formatted, stored, dropped,
          recording, emitted, deliveries, installed>>

Live(tab) == {i \in Slots : tab[i].fn # NULL}
LiveFns(tab) == {tab[i].fn : i \in Live(tab)}

Call(op, fn, level, ret, tab, examined) ==
  [op |-> op, fn |-> fn, level |-> level, ret |-> ret,
   live |-> Cardinality(Live(tab)), examined |-> examined]

Range(seq) == {seq[k] : k \in 1 .. Len(seq)}

\* no callback subscribed since picolog_init is on record
NoInstalls == [valid |-> FALSE, order |-> <<>>]

\* static storage is zero-initialised
Start(rec) ==
  /\ s_subscribers = ZeroTable
  /\ s_message = [i \in Bytes |-> NUL]
  /\ call = Call("none", NULL, ZeroLevel, PICOLOG_ERR_NONE, ZeroTable, 0)
  /\ invoked = <<>>
  /\ formatted = <<>>
  /\ stored = {}
  /\ dropped = {}
  /\ recording = rec
  /\ emitted = <<>>
  /\ deliveries = <<>>
  /\ installed = NoInstalls

Init == Start("off")

PicologInit(threshold) ==
  LET r == picolog_init(s_subscribers, threshold) IN
  /\ s_subscribers' = r.tab
  /\ call' = Call("init", picolog_format, threshold, PICOLOG_ERR_NONE, s_subscribers,
                  r.examined)
  /\ invoked' = <<>>
  /\ dropped' = (dropped \cup LiveFns(s_subscribers)) \ {picolog_format}
  /\ installed' = IF recording = "installs"
                  THEN [valid |-> TRUE, order |-> <<picolog_format>>]
                  ELSE installed
  /\ UNCHANGED <<s_message, formatted, stored, recording, emitted, deliveries>>

PicologSubscribe(fn, threshold) ==
  LET r == picolog_subscribe(s_subscribers, fn, threshold) IN
  /\ s_subscribers' = r.tab
  /\ call' = Call("subscribe", fn, threshold, r.ret, s_subscribers, r.examined)
  /\ invoked' = <<>>
  /\ dropped' = IF r.ret = PICOLOG_ERR_NONE THEN dropped \ {fn} ELSE dropped
  /\ installed' = IF /\ recording = "installs" /\ installed.valid
                     /\ fn # NULL /\ fn \notin Range(installed.order)
                     /\ Len(installed.order) < PICOLOG_MAX_SUBSCRIBERS
                  THEN [installed EXCEPT !.order = Append(@, fn)]
                  ELSE installed
  /\ UNCHANGED <<s_message, formatted, stored, recording, emitted, deliveries>>

PicologUnsubscribe(fn) ==
  LET r == picolog_unsubscribe(s_subscribers, fn) IN
  /\ s_subscribers' = r.tab
  /\ call' = Call("unsubscribe", fn, ZeroLevel, r.ret, s_subscribers, r.examined)
  /\ invoked' = <<>>
  /\ installed' = IF recording = "installs" THEN NoInstalls ELSE installed
  /\ UNCHANGED <<s_message, formatted, stored, dropped, recording, emitted, deliveries>>

\* picolog_message while the callback `reentrant` is one that logs
PicologMessageReentrant(severity, fmt, args, reentrant) ==
  LET text == Format(fmt, args)
      buf == vsnprintf(s_message, PICOLOG_MAX_MESSAGE_LENGTH, text)
      r == DispatchNested(s_subscribers, severity, buf, 0, reentrant, 0)
      note == Format(ReentrantNote.fmt, ReentrantNote.args) IN
  /\ s_message' = r.buf
  /\ formatted' = text
  /\ stored' = StoredIndices(PICOLOG_MAX_MESSAGE_LENGTH, Len(text)) \cup
               (IF \E k \in 1 .. Len(r.made) : r.made[k].fn = reentrant
                THEN StoredIndices(PICOLOG_MAX_MESSAGE_LENGTH, Len(note))
                ELSE {})
  /\ invoked' = r.made
  /\ call' = Call("message", reentrant, severity, PICOLOG_ERR_NONE, s_subscribers,
                  DispatchExamined(0))
  /\ UNCHANGED <<s_subscribers, dropped, recording, emitted, deliveries, installed>>

\* picolog_level_name looks at its argument only and returns a string
\* constant
PicologLevelName(severity) ==
  /\ call' = Call("level_name", NULL, severity, picolog_level_name(severity),
                  s_subscribers, 0)
  /\ invoked' = <<>>
  /\ UNCHANGED <<s_subscribers, s_message, formatted, stored, dropped,
                 recording, emitted, deliveries, installed>>

\* the record of a call's invocations: each with the number of the call
Numbered(invocations, n) ==
  [k \in 1 .. Len(invocations) |->
     [n |-> n, fn |-> invocations[k].fn, severity |-> invocations[k].severity,
      msg |-> invocations[k].msg]]

\* (mutant) the callbacks are invoked before the message is formatted
PicologMessageFormatsLate(severity, fmt, args) ==
  LET text == Format(fmt, args)
      buf == vsnprintf(s_message, PICOLOG_MAX_MESSAGE_LENGTH, text)
      made == Dispatch(s_subscribers, severity, s_message, 0) IN
  /\ recording = "deliveries" => Len(emitted) < MaxEmits
  /\ s_message' = buf
  /\ formatted' = text
  /\ stored' = StoredIndices(PICOLOG_MAX_MESSAGE_LENGTH, Len(text))
  /\ invoked' = made
  /\ call' = Call("message", NULL, severity, PICOLOG_ERR_NONE, s_subscribers,
                  DispatchExamined(0))
  /\ emitted' = IF recording = "deliveries"
                THEN Append(emitted, [severity |-> severity, text |-> text])
                ELSE emitted
  /\ deliveries' = IF recording = "deliveries"
                  THEN deliveries \o Numbered(made, Len(emitted) + 1)
                  ELSE deliveries
  /\ UNCHANGED <<s_subscribers, dropped, recording, installed>>

PicologMessage(severity, fmt, args) ==
  LET text == Format(fmt, args)
      buf == vsnprintf(s_message, PICOLOG_MAX_MESSAGE_LENGTH, text)
      made == Dispatch(s_subscribers, severity, buf, 0) IN
  /\ recording = "deliveries" => Len(emitted) < MaxEmits
  /\ s_message' = buf
  /\ formatted' = text
  /\ stored' = StoredIndices(PICOLOG_MAX_MESSAGE_LENGTH, Len(text))
  /\ invoked' = made
  /\ call' = Call("message", NULL, severity, PICOLOG_ERR_NONE, s_subscribers,
                  DispatchExamined(0))
  /\ emitted' = IF recording = "deliveries"
                THEN Append(emitted, [severity |-> severity, text |-> text])
                ELSE emitted
  /\ deliveries' = IF recording = "deliveries"
                  THEN deliveries \o Numbered(made, Len(emitted) + 1)
                  ELSE deliveries
  /\ UNCHANGED <<s_subscribers, dropped, recording, installed>>

\* ---------------------------------------------------------------------------
\* Inputs

\* a string argument of length n
Str(n) == [i \in 1 .. n |-> <<"a", "b", "c">>[((i - 1) % 3) + 1]]

XEq5 == [fmt |-> <<"x", "=", "%d">>, args |-> <<5>>]
PercentS(n) == [fmt |-> <<"%s">>, args |-> <<Str(n)>>]

ExampleThresholds == {PICOLOG_DEBUG_LEVEL, PICOLOG_ERROR_LEVEL}
ExampleSeverities == {PICOLOG_INFO_LEVEL, PICOLOG_CRITICAL_LEVEL}

\* any sequence of calls, any callback, the thresholds and severities of
\* the header's and the specification's examples
Next ==
  \/ \E t \in ExampleThresholds : PicologInit(t)
  \/ \E f \in FnPointers, t \in ExampleThresholds : PicologSubscribe(f, t)
  \/ \E f \in FnPointers : PicologUnsubscribe(f)
  \/ \E s \in ExampleSeverities : PicologMessage(s, XEq5.fmt, XEq5.args)

Spec == Init /\ [][Next]_vars

\* the two sinks of the specification's example
SinkA == picolog_format + 1
SinkB == SinkA + 1

\* every threshold against every severity of picolog_level_t, for the
\* console formatter and the two sinks
NextLevels ==
  \/ \E t \in Levels : PicologInit(t)
  \/ \E f \in {SinkA, SinkB}, t \in Levels : PicologSubscribe(f, t)
  \/ \E f \in {SinkA, SinkB} : PicologUnsubscribe(f)
  \/ \E s \in Levels : PicologMessage(s, XEq5.fmt, XEq5.args)

SpecLevels == Init /\ [][NextLevels]_vars

\* lengths of formatted text around the capacity of the buffer
TextLengths == {0, 1} \cup
  ((PICOLOG_MAX_MESSAGE_LENGTH - 2) .. (PICOLOG_MAX_MESSAGE_LENGTH + 2))

\* messages shorter than, as long as and longer than the buffer, for the
\* console formatter and the two sinks
NextMessages ==
  \/ \E t \in ExampleThresholds : PicologInit(t)
  \/ \E f \in {SinkA, SinkB}, t \in ExampleThresholds : PicologSubscribe(f, t)
  \/ \E f \in {SinkA, SinkB} : PicologUnsubscribe(f)
  \/ \E s \in ExampleSeverities, m \in {XEq5} \cup {PercentS(n) : n \in TextLengths} :
       PicologMessage(s, m.fmt, m.args)

SpecMessages == Init /\ [][NextMessages]_vars

\* a short and an overlong message
OrderMessages == {XEq5, PercentS(PICOLOG_MAX_MESSAGE_LENGTH + 1)}

\* a run of up to MaxEmits messages, each call and each delivery on record,
\* for the console formatter and one sink that comes and goes
NextOrder ==
  \/ \E t \in ExampleThresholds : PicologInit(t)
  \/ \E t \in ExampleThresholds : PicologSubscribe(SinkA, t)
  \/ PicologUnsubscribe(SinkA)
  \/ \E s \in ExampleSeverities, m \in OrderMessages : PicologMessage(s, m.fmt, m.args)

InitOrder == Start("deliveries")

SpecOrder == InitOrder /\ [][NextOrder]_vars

\* values of the parameter type that are no level of picolog_level_t
OtherLevels == {ZeroLevel, PICOLOG_TRACE_LEVEL - 1, PICOLOG_ALWAYS_LEVEL + 1}

\* every level name asked for, between the calls of SpecMessages
NextNames ==
  \/ NextMessages
  \/ \E s \in Levels \cup OtherLevels : PicologLevelName(s)

SpecNames == Init /\ [][NextNames]_vars

\* the calls of SpecMessages with the short message, and messages logged
\* while SinkA is a callback that logs
NextReentrant ==
  \/ \E t \in ExampleThresholds : PicologInit(t)
  \/ \E f \in {SinkA, SinkB}, t \in ExampleThresholds : PicologSubscribe(f, t)
  \/ \E f \in {SinkA, SinkB} : PicologUnsubscribe(f)
  \/ \E s \in ExampleSeverities : PicologMessage(s, XEq5.fmt, XEq5.args)
  \/ \E s \in ExampleSeverities : PicologMessageReentrant(s, XEq5.fmt, XEq5.args, SinkA)

SpecReentrant == Init /\ [][NextReentrant]_vars

\* the table filled, emptied and initialised again by the formatter and
\* the client sinks, with the subscriptions since picolog_init on record
NextFill ==
  \/ \E t \in ExampleThresholds : PicologInit(t)
  \/ \E f \in Clients, t \in ExampleThresholds : PicologSubscribe(f, t)
  \/ \E f \in Clients : PicologUnsubscribe(f)
  \/ \E s \in ExampleSeverities : PicologMessage(s, XEq5.fmt, XEq5.args)

InitFill == Start("installs")

SpecFill == InitFill /\ [][NextFill]_vars

\* ---------------------------------------------------------------------------
\* Claims about the subscriber table

\* the step is a call of op (a call that changes nothing at all is a
\* stuttering step and has nothing to show)
Calls(op) == call'.op = op

\* C1: in every reachable state the table holds at most
\* PICOLOG_MAX_SUBSCRIBERS live entries and no two live entries hold the
\* same callback.
C1_LiveEntriesBoundedAndDistinct ==
  /\ Cardinality(Live(s_subscribers)) <= PICOLOG_MAX_SUBSCRIBERS
  /\ \A i, j \in Live(s_subscribers) :
        s_subscribers[i].fn = s_subscribers[j].fn => i = j

\* a callback that is live in the highest slot was subscribed again while
\* every slot below it was free
C1_Witness ==
  /\ call.op = "subscribe" /\ call.ret = PICOLOG_ERR_NONE
  /\ call.fn \in Clients
  /\ call.live = 1
  /\ Live(s_subscribers) = {PICOLOG_MAX_SUBSCRIBERS - 1}
  /\ s_subscribers[PICOLOG_MAX_SUBSCRIBERS - 1].fn = call.fn

\* C2: subscribe(f, t) of a callback f that is live returns success, keeps
\* every slot's callback (so the live count and f's slot), keeps the
\* threshold of every other slot, and leaves f with threshold t.
C2_ResubscribeUpdatesInPlace ==
  [][(Calls("subscribe") /\ call'.fn \in LiveFns(s_subscribers)) =>
       /\ call'.ret = PICOLOG_ERR_NONE
       /\ \A i \in Slots :
            /\ s_subscribers'[i].fn = s_subscribers[i].fn
            /\ s_subscribers'[i].threshold =
                 IF s_subscribers[i].fn = call'.fn THEN call'.level
                 ELSE s_subscribers[i].threshold]_vars

\* a live callback was subscribed again, at ERROR, next to another live
\* entry that is at DEBUG
C2_Witness ==
  /\ call.op = "subscribe" /\ call.ret = PICOLOG_ERR_NONE
  /\ call.fn # NULL
  /\ call.level = PICOLOG_ERROR_LEVEL
  /\ call.live = Cardinality(Live(s_subscribers))
  /\ \E i, j \in Live(s_subscribers) :
        /\ s_subscribers[i].fn = call.fn
        /\ s_subscribers[i].threshold = PICOLOG_ERROR_LEVEL
        /\ s_subscribers[j].threshold = PICOLOG_DEBUG_LEVEL

\* fn is in no slot of the table, live or free
InNoSlot(tab, fn) == \A i \in Slots : tab[i].fn # fn

\* C3: subscribe(f, t) of a callback that is in no slot returns
\* PICOLOG_ERR_SUBSCRIBERS_EXCEEDED and leaves every slot as it was when all
\* slots are live, and otherwise succeeds and adds one live entry; so after
\* picolog_init, PICOLOG_MAX_SUBSCRIBERS - 1 new callbacks fit and the next
\* one is refused.
C3_FullTableRefusesNewCallback ==
  [][(Calls("subscribe") /\ InNoSlot(s_subscribers, call'.fn)) =>
       IF Cardinality(Live(s_subscribers)) = PICOLOG_MAX_SUBSCRIBERS
       THEN /\ call'.ret = PICOLOG_ERR_SUBSCRIBERS_EXCEEDED
            /\ s_subscribers' = s_subscribers
       ELSE /\ call'.ret = PICOLOG_ERR_NONE
            /\ Cardinality(Live(s_subscribers')) =
                 Cardinality(Live(s_subscribers)) + 1]_vars

\* a new callback was refused by a table that holds picolog_format and
\* PICOLOG_MAX_SUBSCRIBERS - 1 client sinks
C3_Witness ==
  /\ call.op = "subscribe"
  /\ call.ret = PICOLOG_ERR_SUBSCRIBERS_EXCEEDED
  /\ call.fn \in Clients
  /\ call.live = PICOLOG_MAX_SUBSCRIBERS
  /\ picolog_format \in LiveFns(s_subscribers)
  /\ Cardinality(Live(s_subscribers)) = PICOLOG_MAX_SUBSCRIBERS
  /\ call.fn \notin LiveFns(s_subscribers)

\* C4 (as claimed): unsubscribe(f) of any f that is in no live slot returns
\* PICOLOG_ERR_NOT_SUBSCRIBED and leaves the table as it was.
C4_UnsubscribeNotLive ==
  [][(Calls("unsubscribe") /\ call'.fn \notin LiveFns(s_subscribers)) =>
       /\ call'.ret = PICOLOG_ERR_NOT_SUBSCRIBED
       /\ s_subscribers' = s_subscribers]_vars

\* C4, for the callbacks other than NULL: this much the code does
C4_UnsubscribeNotLiveNonNull ==
  [][(Calls("unsubscribe") /\ call'.fn # NULL
        /\ call'.fn \notin LiveFns(s_subscribers)) =>
       /\ call'.ret = PICOLOG_ERR_NOT_SUBSCRIBED
       /\ s_subscribers' = s_subscribers]_vars

\* ---------------------------------------------------------------------------
\* Claims about dispatch

InvokedFns == {invoked[k].fn : k \in 1 .. Len(invoked)}
TimesInvoked(fn) == Cardinality({k \in 1 .. Len(invoked) : invoked[k].fn = fn})

\* C5: picolog_message(S, ...) invokes a live subscriber with threshold T
\* if and only if S >= T, for every S and T of picolog_level_t.
C5_InvokedIffSeverityAtLeastThreshold ==
  call.op = "message" =>
    \A i \in Live(s_subscribers) :
      s_subscribers[i].fn \in InvokedFns <=> call.level >= s_subscribers[i].threshold

\* sink A at DEBUG and sink B at ERROR: an INFO message reached A and not B
C5_Witness ==
  /\ call.op = "message" /\ call.level = PICOLOG_INFO_LEVEL
  /\ \E i, j \in Live(s_subscribers) :
        /\ s_subscribers[i] = subscriber_t(SinkA, PICOLOG_DEBUG_LEVEL)
        /\ s_subscribers[j] = subscriber_t(SinkB, PICOLOG_ERROR_LEVEL)
  /\ SinkA \in InvokedFns
  /\ SinkB \notin InvokedFns

\* C6: one picolog_message invokes each live subscriber whose threshold
\* admits the severity exactly once and nothing else: no free slot's
\* callback, no subscriber whose threshold is above the severity.
C6_EachMatchingSubscriberOnce ==
  call.op = "message" =>
    \A f \in FnPointers :
      TimesInvoked(f) =
        IF \E i \in Live(s_subscribers) :
             s_subscribers[i].fn = f /\ call.level >= s_subscribers[i].threshold
        THEN 1 ELSE 0

\* a message that was delivered to one subscriber, passed over another whose
\* threshold is above it, and passed over a free slot whose stale threshold
\* is not
C6_Witness ==
  /\ call.op = "message"
  /\ Len(invoked) = 1
  /\ \E i \in Live(s_subscribers) : call.level < s_subscribers[i].threshold
  /\ \E i \in Slots \ Live(s_subscribers) : call.level >= s_subscribers[i].threshold

\* C7: every callback invoked by one picolog_message is handed the severity
\* of the call and the same text, the one the buffer holds when the call
\* returns.
C7_SameTextAndSeverityForAll ==
  call.op = "message" =>
    \A k \in 1 .. Len(invoked) :
      /\ invoked[k].severity = call.level
      /\ invoked[k].msg = CString(s_message)
      /\ \A j \in 1 .. Len(invoked) :
           invoked[j].msg = invoked[k].msg /\ invoked[j].severity = invoked[k].severity

\* a CRITICAL message was delivered to three subscribers that have two
\* different thresholds
C7_Witness ==
  /\ call.op = "message" /\ call.level = PICOLOG_CRITICAL_LEVEL
  /\ Len(invoked) = 3
  /\ Len(formatted) > 0
  /\ \E i, j \in Live(s_subscribers) :
       s_subscribers[i].threshold # s_subscribers[j].threshold

\* C8: the text picolog_message delivers is a prefix of the formatted text,
\* of at most PICOLOG_MAX_MESSAGE_LENGTH - 1 characters, the whole text when
\* that fits, and only bytes of the buffer are stored to.
C8_DeliveredTextIsBoundedPrefix ==
  call.op = "message" =>
    LET delivered == CString(s_message) IN
    /\ Len(delivered) <= PICOLOG_MAX_MESSAGE_LENGTH - 1
    /\ Len(delivered) <= Len(formatted)
    /\ delivered = SubSeq(formatted, 1, Len(delivered))
    /\ Len(formatted) <= PICOLOG_MAX_MESSAGE_LENGTH - 1 => delivered = formatted
    /\ Len(formatted) >= PICOLOG_MAX_MESSAGE_LENGTH =>
         Len(delivered) = PICOLOG_MAX_MESSAGE_LENGTH - 1
    /\ stored \subseteq Bytes
    /\ \A k \in 1 .. Len(invoked) : invoked[k].msg = delivered

\* a text longer than the buffer was delivered
C8_Witness ==
  /\ call.op = "message"
  /\ Len(formatted) > PICOLOG_MAX_MESSAGE_LENGTH
  /\ Len(invoked) > 0
  /\ Len(invoked[1].msg) = PICOLOG_MAX_MESSAGE_LENGTH - 1

\* ---------------------------------------------------------------------------
\* Claims about picolog_init and about subscribing again

\* C9: after picolog_init(threshold) the only live entry is picolog_format
\* with that threshold, whatever the table held; a second picolog_init with
\* the same threshold leaves the table as the first left it; and no callback
\* that was live before a picolog_init is invoked before it is subscribed
\* again.
C9_InitResets ==
  /\ [][Calls("init") =>
          /\ \E i \in Slots :
               /\ Live(s_subscribers') = {i}
               /\ s_subscribers'[i] = subscriber_t(picolog_format, call'.level)
          /\ (call.op = "init" /\ call.level = call'.level) =>
               s_subscribers' = s_subscribers]_vars
  /\ [](InvokedFns \cap dropped = {})

\* picolog_init on a table full of client sinks; a CRITICAL message, which
\* every threshold in use admits, then reached picolog_format alone
C9_Witness ==
  /\ call.op = "message" /\ call.level = PICOLOG_CRITICAL_LEVEL
  /\ InvokedFns = {picolog_format}
  /\ Cardinality(dropped) = PICOLOG_MAX_SUBSCRIBERS
  /\ \E i \in Slots \ Live(s_subscribers) : s_subscribers[i].threshold = ZeroLevel

\* C10 (as claimed): after unsubscribe(f) returned success, subscribe(f, t)
\* as the next call returns success and puts f into a slot that was free;
\* f is then live with threshold t and as many entries are live as before
\* the unsubscribe.
C10_SubscribeAfterUnsubscribe ==
  [][(call.op = "unsubscribe" /\ call.ret = PICOLOG_ERR_NONE
        /\ Calls("subscribe") /\ call'.fn = call.fn) =>
       /\ call'.ret = PICOLOG_ERR_NONE
       /\ \E i \in Slots :
            /\ s_subscribers[i].fn = NULL
            /\ i \in Live(s_subscribers')
            /\ s_subscribers'[i] = subscriber_t(call.fn, call'.level)
       /\ Cardinality(Live(s_subscribers')) = call.live]_vars

\* C10, for the callbacks other than NULL: this much the code does
C10_SubscribeAfterUnsubscribeNonNull ==
  [][(call.op = "unsubscribe" /\ call.ret = PICOLOG_ERR_NONE /\ call.fn # NULL
        /\ Calls("subscribe") /\ call'.fn = call.fn) =>
       /\ call'.ret = PICOLOG_ERR_NONE
       /\ \E i \in Slots :
            /\ s_subscribers[i].fn = NULL
            /\ i \in Live(s_subscribers')
            /\ s_subscribers'[i] = subscriber_t(call.fn, call'.level)
       /\ Cardinality(Live(s_subscribers')) = call.live]_vars

\* C11: a picolog_unsubscribe(f) that returns success frees the slot that
\* held f and changes no other slot, so f is live in no slot afterwards; a
\* callback becomes live only by a picolog_subscribe of it (picolog_init
\* subscribes picolog_format), and picolog_message invokes live callbacks
\* only: f receives nothing until it is subscribed again, and every other
\* live entry keeps its callback and its threshold.
C11_UnsubscribeFreesExactlyOneSlot ==
  /\ [][(Calls("unsubscribe") /\ call'.ret = PICOLOG_ERR_NONE) =>
          /\ \E i \in Slots :
               /\ s_subscribers[i].fn = call'.fn
               /\ s_subscribers'[i].fn = NULL
               /\ \A j \in Slots \ {i} : s_subscribers'[j] = s_subscribers[j]
          /\ call'.fn \notin LiveFns(s_subscribers')]_vars
  /\ [][\A f \in LiveFns(s_subscribers') \ LiveFns(s_subscribers) :
          (Calls("subscribe") \/ Calls("init")) /\ call'.fn = f]_vars
  /\ [](call.op = "message" => InvokedFns \subseteq LiveFns(s_subscribers))

\* a client sink was unsubscribed from a full table: two entries stay live
C11_Witness ==
  /\ call.op = "unsubscribe" /\ call.ret = PICOLOG_ERR_NONE
  /\ call.fn \in Clients
  /\ call.live = PICOLOG_MAX_SUBSCRIBERS
  /\ Cardinality(Live(s_subscribers)) = PICOLOG_MAX_SUBSCRIBERS - 1
  /\ call.fn \notin LiveFns(s_subscribers)

\* ---------------------------------------------------------------------------
\* Claims about the order of deliveries

\* what a callback is handed of a formatted text
Truncated(text) == SubSeq(text, 1, Min(Len(text), PICOLOG_MAX_MESSAGE_LENGTH - 1))

\* C12: with the calls of picolog_message made one after the other, every
\* delivery carries the severity and the (truncated) text of the call it
\* belongs to, the deliveries of one call all come before any delivery of
\* the next, and each subscriber gets one call's message at most once: each
\* subscriber receives its messages in the order the calls were made.
C12_DeliveriesInCallOrder ==
  /\ \A k \in 1 .. Len(deliveries) :
       /\ deliveries[k].n \in 1 .. Len(emitted)
       /\ deliveries[k].severity = emitted[deliveries[k].n].severity
       /\ deliveries[k].msg = Truncated(emitted[deliveries[k].n].text)
  /\ \A j, k \in 1 .. Len(deliveries) :
       j < k =>
         /\ deliveries[j].n <= deliveries[k].n
         /\ deliveries[j].fn = deliveries[k].fn => deliveries[j].n < deliveries[k].n

\* one subscriber has received MaxEmits messages, the first and the last of
\* different text, and another subscriber received the last one after it
C12_Witness ==
  /\ Len(emitted) = MaxEmits
  /\ emitted[1].text # emitted[MaxEmits].text
  /\ \E j, k, l \in 1 .. Len(deliveries) :
       /\ j < k /\ k < l
       /\ deliveries[j].fn = deliveries[k].fn
       /\ deliveries[j].n = 1 /\ deliveries[k].n = MaxEmits
       /\ deliveries[l].fn # deliveries[k].fn /\ deliveries[l].n = MaxEmits

\* ---------------------------------------------------------------------------
\* Claims about the slot a subscription takes

\* the free slots of a table
FreeSlots(tab) == {i \in Slots : IsFree(tab[i])}

\* the step subscribes a callback that is in no slot, with a slot free, and
\* puts it into slot i, leaving every other slot as it was
InstallsNewAt(i) ==
  /\ call'.ret = PICOLOG_ERR_NONE
  /\ s_subscribers' = [s_subscribers EXCEPT ![i] = subscriber_t(call'.fn, call'.level)]

\* C13 (as claimed): picolog_subscribe of a callback that is in no slot,
\* with a slot free, returns success and puts callback and threshold into
\* the lowest-index free slot, leaving every other slot unchanged.
C13_NewCallbackTakesLowestFreeSlot ==
  [][(Calls("subscribe") /\ InNoSlot(s_subscribers, call'.fn)
        /\ FreeSlots(s_subscribers) # {}) =>
       \E i \in FreeSlots(s_subscribers) :
         /\ \A j \in FreeSlots(s_subscribers) : i <= j
         /\ InstallsNewAt(i)]_vars

\* C13 (amended): picolog_subscribe of a callback that is in no slot, with
\* a slot free, returns success and puts callback and threshold into the
\* highest-index free slot, the last one its scan from slot 0 upward finds,
\* leaving every other slot unchanged.
C13_NewCallbackTakesHighestFreeSlot ==
  [][(Calls("subscribe") /\ InNoSlot(s_subscribers, call'.fn)
        /\ FreeSlots(s_subscribers) # {}) =>
       \E i \in FreeSlots(s_subscribers) :
         /\ \A j \in FreeSlots(s_subscribers) : j <= i
         /\ InstallsNewAt(i)]_vars

\* a new client sink was subscribed with the lowest slot live and the two
\* above it free: it is in the topmost slot, the middle one is still free
C13_Witness ==
  /\ call.op = "subscribe" /\ call.ret = PICOLOG_ERR_NONE
  /\ call.fn \in Clients
  /\ call.live = 1
  /\ Live(s_subscribers) = {0, PICOLOG_MAX_SUBSCRIBERS - 1}
  /\ s_subscribers[PICOLOG_MAX_SUBSCRIBERS - 1].fn = call.fn

\* ---------------------------------------------------------------------------
\* Claims about the level names

\* the names of the seven levels, TRACE first
LevelNames == <<"TRACE", "DEBUG", "INFO", "WARNING", "ERROR", "CRITICAL", "ALWAYS">>

\* C14: picolog_level_name returns the fixed name of each of the seven
\* levels, the names being pairwise distinct, and "UNKNOWN" for every other
\* value; the call leaves the table and the message buffer as they were.
C14_LevelNames ==
  /\ [](call.op = "level_name" =>
          /\ call.level \in Levels =>
               call.ret = LevelNames[call.level - PICOLOG_TRACE_LEVEL + 1]
          /\ call.level \notin Levels => call.ret = "UNKNOWN")
  /\ [](\A j, k \in 1 .. Len(LevelNames) :
          /\ LevelNames[j] # "UNKNOWN"
          /\ j # k => LevelNames[j] # LevelNames[k])
  /\ [][Calls("level_name") =>
          UNCHANGED <<s_subscribers, s_message, formatted, stored>>]_vars

\* the name of CRITICAL was asked for with three subscribers live and a
\* message in the buffer
C14_Witness ==
  /\ call.op = "level_name" /\ call.level = PICOLOG_CRITICAL_LEVEL
  /\ call.ret = "CRITICAL"
  /\ Cardinality(Live(s_subscribers)) = 3
  /\ Len(CString(s_message)) > 0

\* C15: the invocations one picolog_message makes are in ascending order of
\* the slots their callbacks occupy, whatever the order in which the
\* callbacks were subscribed.
C15_InvokedInAscendingSlotOrder ==
  call.op = "message" =>
    \A j, k \in 1 .. Len(invoked) :
      j < k =>
        \E a, b \in Live(s_subscribers) :
          /\ a < b
          /\ s_subscribers[a].fn = invoked[j].fn
          /\ s_subscribers[b].fn = invoked[k].fn

\* a message went to three subscribers, picolog_format in the lowest slot
\* first: the sinks in the slots above it were subscribed before it
C15_Witness ==
  /\ call.op = "message"
  /\ Len(invoked) = 3
  /\ invoked[1].fn = picolog_format
  /\ s_subscribers[0].fn = picolog_format

\* ---------------------------------------------------------------------------
\* Claims about callbacks that log

\* C16: when a callback calls picolog_message during a delivery pass, the
\* inner call overwrites the one message buffer: the subscribers up to and
\* including that callback get the outer text, the matching subscribers in
\* the slots after it get the outer severity with the inner call's text.
\* When no callback calls picolog_message, no invocation carries a text
\* other than that of its own call.
C16_ReentrantCallOverwritesBuffer ==
  call.op = "message" =>
    LET outer == Truncated(formatted)
        inner == Truncated(Format(ReentrantNote.fmt, ReentrantNote.args))
        matching == {i \in Live(s_subscribers) :
                       call.level >= s_subscribers[i].threshold} IN
    /\ call.fn = NULL =>
         \A k \in 1 .. Len(invoked) :
           invoked[k].severity = call.level /\ invoked[k].msg = outer
    /\ call.fn # NULL =>
         \A a \in matching :
           s_subscribers[a].fn = call.fn =>
             /\ CString(s_message) = inner
             /\ \A b \in matching :
                  /\ b <= a =>
                       [fn |-> s_subscribers[b].fn, severity |-> call.level,
                        msg |-> outer] \in Range(invoked)
                  /\ b > a =>
                       /\ [fn |-> s_subscribers[b].fn, severity |-> call.level,
                           msg |-> inner] \in Range(invoked)
                       /\ (outer # inner \/ call.level # ReentrantNote.severity) =>
                            [fn |-> s_subscribers[b].fn, severity |-> call.level,
                             msg |-> outer] \notin Range(invoked)

\* SinkA logged from inside a CRITICAL message: the subscriber in the slot
\* after SinkA's was invoked with CRITICAL and the text of SinkA's note
C16_Witness ==
  /\ call.op = "message" /\ call.fn = SinkA
  /\ call.level = PICOLOG_CRITICAL_LEVEL
  /\ ReentrantNote.severity # PICOLOG_CRITICAL_LEVEL
  /\ Truncated(formatted) # CString(s_message)
  /\ \E a, b \in Live(s_subscribers) :
       /\ a < b
       /\ s_subscribers[a].fn = SinkA
       /\ [fn |-> s_subscribers[b].fn, severity |-> PICOLOG_CRITICAL_LEVEL,
           msg |-> CString(s_message)] \in Range(invoked)

\* ---------------------------------------------------------------------------
\* Claims about the work a call does

\* C17: every call returns after a bounded number of loop iterations: a
\* subscribe, an unsubscribe and the subscribe inside picolog_init look at
\* no more than PICOLOG_MAX_SUBSCRIBERS slots, picolog_message looks at
\* exactly PICOLOG_MAX_SUBSCRIBERS slots and invokes no more than
\* PICOLOG_MAX_SUBSCRIBERS callbacks; only picolog_message invokes callbacks.
C17_BoundedWork ==
  /\ call.op \in {"init", "subscribe", "unsubscribe"} =>
       /\ call.examined \in 1 .. PICOLOG_MAX_SUBSCRIBERS
       /\ invoked = <<>>
  /\ call.op = "message" =>
       /\ call.examined = PICOLOG_MAX_SUBSCRIBERS
       /\ Len(invoked) <= PICOLOG_MAX_SUBSCRIBERS

\* a message was delivered to as many callbacks as there are slots
C17_Witness ==
  /\ call.op = "message"
  /\ Len(invoked) = PICOLOG_MAX_SUBSCRIBERS
  /\ call.examined = PICOLOG_MAX_SUBSCRIBERS

\* ---------------------------------------------------------------------------
\* Claims about the table filling up

\* C18: after picolog_init and then subscriptions of up to
\* PICOLOG_MAX_SUBSCRIBERS - 1 different new callbacks, with no unsubscribe
\* since, picolog_format is in the highest slot and the m-th callback
\* subscribed after it in the m-th slot below, the slots under them free; a
\* message that every live threshold admits goes to the callbacks in the
\* reverse of the order of subscription, picolog_format last.
C18_FilledFromTheTop ==
  installed.valid =>
    LET k == Len(installed.order) IN
    /\ k \in 1 .. PICOLOG_MAX_SUBSCRIBERS
    /\ installed.order[1] = picolog_format
    /\ \A m \in 1 .. k :
         s_subscribers[PICOLOG_MAX_SUBSCRIBERS - m].fn = installed.order[m]
    /\ \A i \in Slots : i < PICOLOG_MAX_SUBSCRIBERS - k => s_subscribers[i].fn = NULL
    /\ (/\ call.op = "message"
        /\ \A i \in Live(s_subscribers) : call.level >= s_subscribers[i].threshold) =>
         /\ Len(invoked) = k
         /\ \A j \in 1 .. k : invoked[j].fn = installed.order[k - j + 1]

\* the table was filled after picolog_init and a message went to every
\* callback, the one subscribed last first
C18_Witness ==
  /\ installed.valid
  /\ Len(installed.order) = PICOLOG_MAX_SUBSCRIBERS
  /\ call.op = "message"
  /\ Len(invoked) = PICOLOG_MAX_SUBSCRIBERS
  /\ invoked[1].fn = installed.order[PICOLOG_MAX_SUBSCRIBERS]
  /\ invoked[PICOLOG_MAX_SUBSCRIBERS].fn = picolog_format

\* ---------------------------------------------------------------------------
\* Claims about the null callback

\* callback and threshold of the live entries of a table
LiveEntries(tab) == {tab[i] : i \in Live(tab)}

\* C19: picolog_subscribe(NULL, t) and picolog_unsubscribe(NULL) leave every
\* slot's callback as it was, free slots free, and the live entries with
\* the thresholds they had; picolog_message never invokes a null callback.
C19_NullIsNeverASubscriber ==
  /\ [][((Calls("subscribe") \/ Calls("unsubscribe")) /\ call'.fn = NULL) =>
          /\ \A i \in Slots : s_subscribers'[i].fn = s_subscribers[i].fn
          /\ LiveEntries(s_subscribers') = LiveEntries(s_subscribers)]_vars
  /\ [](NULL \notin InvokedFns)

\* picolog_subscribe(NULL, ERROR) returned success next to a live entry of
\* threshold DEBUG: it wrote ERROR into a free slot, which is still free,
\* and a later CRITICAL message would find that slot's threshold admitting
C19_Witness ==
  /\ call.op = "subscribe" /\ call.fn = NULL /\ call.ret = PICOLOG_ERR_NONE
  /\ call.level = PICOLOG_ERROR_LEVEL
  /\ \E i \in Live(s_subscribers) : s_subscribers[i].threshold = PICOLOG_DEBUG_LEVEL
  /\ \E i \in Slots \ Live(s_subscribers) :
       s_subscribers[i].threshold = PICOLOG_ERROR_LEVEL
  /\ Cardinality(Live(s_subscribers)) = call.live

====
